---- MODULE Spec2Model ----
(***************************************************************************)
(* Named elements collection (crate nec): an ordered list of element       *)
(* bundles plus a name index (HashMap<String, usize> for UNEC,              *)
(* HashMap<String, Vec<usize>> for DNEC), modelled from src/src/nec.rs and  *)
(* src/src/adjustable.rs.                                                   *)
(*                                                                         *)
(* Positions are 0-based as in the code; TLA+ sequences are 1-based, so    *)
(* the bundle at position p of list l is l[p + 1] (operator At).           *)
(*                                                                         *)
(* nec.rs:362 calls self.hmap.remove_entry(&name, index); the only         *)
(* two-argument removal the index type offers is Adjustable::delete_entry  *)
(* (adjustable.rs:7), which is what the call is modelled as.               *)
(*                                                                         *)
(* A panic unwinds out of the operation and ends the run: a state whose    *)
(* result.outcome is "panic" has no successor.  The state it shows is the  *)
(* collection as the panicking call left it.                               *)
(***************************************************************************)
EXTENDS Integers, Sequences, FiniteSets

\* ---------------------------------------------------------------- bounds
\* Longest list the model grows (pushes are disabled beyond it).
MaxLen == 3
\* Most positions the name index may hold for a push to be taken: a removal
\* that leaves a stale position behind lets the index outgrow the list.
MaxEntries == 4
\* SpecIndex: largest position stored in a drawn index, longest drawn list.
MaxPos == 3
MaxListLen == 2
\* SpecClone: calls made in one run, clone() included.
MaxCalls == 5

\* Names and element payloads the operations draw their inputs from.
Names == {"A", "B"}
Elems == {"e1", "e2"}
\* SpecIndex: the names of the drawn indexes.
IndexNames == {"A", "B"}

VARIABLES
    variant,    \* "UNEC" (Indexes = usize) or "DNEC" (Indexes = Vec<usize>)
    list,       \* NamedElementsCollection.list : Vec<ElementBundle<Element>>
    hmap,       \* NamedElementsCollection.hmap : HashMap<String, Indexes>
    call,       \* the last call made on the collection, with its arguments
    result,     \* its outcome ("ok" / "panic") and, for remove, the bundle returned
    list0,      \* list as it was when the last call started
    hmap0,      \* hmap as it was when the last call started
    prev,       \* the call made before the last one
    dh,         \* SpecIndex: a HashMap<String, Vec<usize>> used on its own
    dcall,      \* SpecIndex: the last trait call made on dh
    dresult,    \* SpecIndex: its outcome
    dh0,        \* SpecIndex: dh as it was when the last call started
    source,     \* SpecBulk: the Vec handed to from() or pushed item by item
    built,      \* SpecBulk: the collection built from source, with its outcome
    bcall,      \* SpecBulk: how built was made
    objs,       \* SpecClone: the collections alive, by identity
    original,   \* SpecClone: the identity behind the handle `original`
    cloned,     \* SpecClone: the identity behind the handle `cloned` (0: no clone yet)
    ccall,      \* SpecClone: the last call, the handle it was made on, its outcome, the calls so far
    objs0,      \* SpecClone: objs as it was when the last call started
    pc,         \* SpecSteps: the statement the current call is at ("idle": between calls)
    trace       \* SpecSteps: what the current call has written so far, in order

vars ==
    <<variant, list, hmap, call, result, list0, hmap0, prev, dh, dcall, dresult, dh0,
      source, built, bcall, objs, original, cloned, ccall, objs0, pc, trace>>
necVars == <<variant, list, hmap, call, result, list0, hmap0, prev>>
indexVars == <<dh, dcall, dresult, dh0>>
bulkVars == <<source, built, bcall>>
cloneVars == <<objs, original, cloned, ccall, objs0>>
stepVars == <<pc, trace>>

\* ------------------------------------------------------------ data model
\* ElementBundle { elem, name: (String, Option<String>) }; the second
\* component of name is None everywhere in nec.rs and is left out.
Bundle(name, element) == [name |-> name, elem |-> element]

\* HashMap::new()
EmptyMap == <<>>

\* The bundle at 0-based position p.
At(l, p) == l[p + 1]

\* Vec::get(index).is_some()
InBounds(l, index) == index < Len(l)

\* Faulty variant: Vec::swap_remove, the last element fills the hole.
VecRemove_SwapRemove(l, index) ==
    IF index + 1 = Len(l) THEN SubSeq(l, 1, index)
    ELSE SubSeq(l, 1, index) \o <<l[Len(l)]>> \o SubSeq(l, index + 2, Len(l) - 1)

\* Vec::remove(index) for index < len: later elements shift left by one.
VecRemove(l, index) == SubSeq(l, 1, index) \o SubSeq(l, index + 2, Len(l))

\* list[index] = bundle
\* Faulty variant: the element is replaced, the stored name is kept.
VecSet_ElemOnly(l, index, b) == [l EXCEPT ![index + 1] = Bundle(@.name, b.elem)]

\* self.list[index] = bundle
VecSet(l, index, b) == [l EXCEPT ![index + 1] = b]

\* HashMap::remove(name): a missing key is ignored.
MapRemove(h, name) == [n \in DOMAIN h \ {name} |-> h[n]]

\* HashMap::insert(name, v): binds or rebinds.
MapInsert(h, name, v) == [n \in DOMAIN h \cup {name} |-> IF n = name THEN v ELSE h[n]]

\* ------------------------------------------ Adjustable for HashMap<String, usize>
\* Faulty variant: a name that is already bound keeps its position.
add_entry_usize_KeepFirst(h, name, index) ==
    IF name \in DOMAIN h THEN h ELSE MapInsert(h, name, index)

\* self.insert(name.to_string(), index)
add_entry_usize(h, name, index) == MapInsert(h, name, index)

\* Faulty variant: the positions above index move down by one, as in the
\* multi index.
delete_entry_usize_Renumber(h, name, index) ==
    [n \in DOMAIN h \ {name} |-> IF h[n] > index THEN h[n] - 1 ELSE h[n]]

\* self.remove(name): _index is not read
delete_entry_usize(h, name, index) == MapRemove(h, name)

replace_entry_usize(h, name, index) == MapInsert(h, name, index)

\* -------------------------------------- Adjustable for HashMap<String, Vec<usize>>
\* Faulty variant: a plain insert, as for the usize index, dropping the
\* positions already held for the name.
add_entry_vec_Overwrite(h, name, index) == MapInsert(h, name, <<index>>)

\* Faulty variant: a new name gets its list, the position is not pushed.
add_entry_vec_NoPush(h, name, index) ==
    MapInsert(h, name, IF name \in DOMAIN h THEN Append(h[name], index) ELSE <<>>)

\* Faulty variant: a position the name's list already holds is not pushed again.
add_entry_vec_Dedup(h, name, index) ==
    IF name \in DOMAIN h /\ \E k \in 1..Len(h[name]) : h[name][k] = index
    THEN h
    ELSE MapInsert(h, name, IF name \in DOMAIN h THEN Append(h[name], index) ELSE <<index>>)

\* entry(name).or_insert(Vec::new()).push(index)
add_entry_vec(h, name, index) ==
    MapInsert(h, name, IF name \in DOMAIN h THEN Append(h[name], index) ELSE <<index>>)

\* Vec::retain(|&i| i != index)
Retain(v, index) == SelectSeq(v, LAMBDA i : i # index)

\* self.get_mut(name).unwrap() panics when name is not a key.
delete_entry_vec_panics(h, name) == name \notin DOMAIN h

\* for v in self.values_mut() { for j in v { if *j > index { *j -= 1 } } }
Renumber(h, index) ==
    [n \in DOMAIN h |->
        [k \in 1..Len(h[n]) |-> IF h[n][k] > index THEN h[n][k] - 1 ELSE h[n][k]]]

\* Faulty variant: the renumbering loop is left out.
delete_entry_vec_NoRenumber(h, name, index) ==
    LET h1 == [h EXCEPT ![name] = Retain(@, index)]
    IN  IF h1[name] = <<>> THEN MapRemove(h1, name) ELSE h1

\* delete_entry for a name that is a key (see delete_entry_vec_panics).
delete_entry_vec(h, name, index) ==
    LET h1 == [h EXCEPT ![name] = Retain(@, index)]
        h2 == IF h1[name] = <<>> THEN MapRemove(h1, name) ELSE h1
    IN  Renumber(h2, index)

replace_entry_vec(h, name, index) == h

\* The trait call as the collection's variant dispatches it.
add_entry(v, h, name, index) ==
    IF v = "UNEC" THEN add_entry_usize(h, name, index) ELSE add_entry_vec(h, name, index)

delete_entry_panics(v, h, name) == v = "DNEC" /\ delete_entry_vec_panics(h, name)

delete_entry(v, h, name, index) ==
    IF v = "UNEC" THEN delete_entry_usize(h, name, index) ELSE delete_entry_vec(h, name, index)

\* ------------------------------------------------------- collection queries
len(l) == Len(l)

contains_name(h, name) == name \in DOMAIN h

\* get_name(index), for index < len
get_name(l, index) == At(l, index).name

\* get(index), for index < len
get(l, index) == At(l, index).elem

names(h) == DOMAIN h

\* is_empty(): self.len() == 0
is_empty(l) == len(l) = 0

\* Option values and the abort of an unwrap on None.
None == [kind |-> "None"]
Some(x) == [kind |-> "Some", val |-> x]
Abort == [kind |-> "panic"]

\* Faulty variant: a position past the end is taken as the last one.
get_option_Clamped(l, index) ==
    IF Len(l) = 0 THEN None
    ELSE Some(At(l, IF index < Len(l) THEN index ELSE Len(l) - 1).elem)

\* get(index): match self.list.get(index) { Some(v) => Some(&v.elem), None => None }
get_option(l, index) == IF InBounds(l, index) THEN Some(At(l, index).elem) ELSE None

\* get_mut(index): the same match on self.list.get_mut(index)
get_mut_option(l, index) == IF InBounds(l, index) THEN Some(At(l, index).elem) ELSE None

\* get_name(index): the same match, giving &v.name.0
get_name_option(l, index) == IF InBounds(l, index) THEN Some(At(l, index).name) ELSE None

\* Faulty variant: the position next to the one asked for is read.
index_by_position_OffByOne(l, index) ==
    IF get_option(l, index + 1) = None THEN Abort ELSE get_option(l, index + 1)

\* collection[index]: self.get(index).unwrap()
index_by_position(l, index) ==
    IF get_option(l, index) = None THEN Abort ELSE get_option(l, index)

\* &mut collection[index]: self.get_mut(index).unwrap()
index_mut_by_position(l, index) ==
    IF get_mut_option(l, index) = None THEN Abort ELSE get_mut_option(l, index)

\* DNEC get_by_name(name): None for a missing key, else the elements at the
\* stored positions, each through self.list.get(*i).unwrap().
get_by_name(l, h, name) ==
    IF ~contains_name(h, name) THEN None
    ELSE LET indexes == h[name]
         IN  IF \E k \in 1..Len(indexes) : ~InBounds(l, indexes[k]) THEN Abort
             ELSE Some([k \in 1..Len(indexes) |-> At(l, indexes[k]).elem])

\* UNEC collection[name]: *self.hmap.get(name).unwrap(), then
\* &self.list.get(index).unwrap().elem
index_by_name(l, h, name) ==
    IF ~contains_name(h, name) THEN Abort
    ELSE IF ~InBounds(l, h[name]) THEN Abort
    ELSE Some(At(l, h[name]).elem)

\* ---------------------------------------------------- collection operations
\* What a call leaves behind: the two structures, the outcome, the value returned.
Ok(l, h) == [list |-> l, hmap |-> h, outcome |-> "ok"]
OkRet(l, h, r) == [list |-> l, hmap |-> h, outcome |-> "ok", ret |-> r]
Panic(l, h) == [list |-> l, hmap |-> h, outcome |-> "panic"]

\* Faulty variant: the index is given the length after the append.
push_LenAfterAppend(v, l, h, name, element) ==
    Ok(Append(l, Bundle(name, element)), add_entry(v, h, name, Len(l) + 1))

\* push(element), element.get_name() = name: index first, then the list.
push(v, l, h, name, element) ==
    Ok(Append(l, Bundle(name, element)), add_entry(v, h, name, Len(l)))

\* Faulty variant: the index is given len instead of len - 1.
push_with_name_private_IndexLen(v, l, h, name, element) ==
    LET l1 == Append(l, Bundle(name, element))
    IN  Ok(l1, add_entry(v, h, name, Len(l1)))

\* _push_with_name: list first, then the index at len - 1.
push_with_name_private(v, l, h, name, element) ==
    LET l1 == Append(l, Bundle(name, element))
    IN  Ok(l1, add_entry(v, h, name, Len(l1) - 1))

\* Faulty variant: no test for a name that is already a key.
push_with_name_usize_AlwaysAppend(l, h, name, element) ==
    push_with_name_private("UNEC", l, h, name, element)

\* UNEC push_with_name: replace in place when the name is a key.
push_with_name_usize(l, h, name, element) ==
    IF name \in DOMAIN h
    THEN LET index == h[name]
         IN  IF ~InBounds(l, index) THEN Panic(l, h)
             ELSE Ok(VecSet(l, index, Bundle(name, element)),
                     replace_entry_usize(h, name, index))
    ELSE push_with_name_private("UNEC", l, h, name, element)

\* Faulty variant: a name that is a key has its first bundle replaced.
push_with_name_vec_Replace(l, h, name, element) ==
    IF name \in DOMAIN h /\ h[name] # <<>> /\ InBounds(l, h[name][1])
    THEN Ok(VecSet(l, h[name][1], Bundle(name, element)), h)
    ELSE push_with_name_private("DNEC", l, h, name, element)

\* DNEC push_with_name: always appends.
push_with_name_vec(l, h, name, element) ==
    push_with_name_private("DNEC", l, h, name, element)

push_with_name(v, l, h, name, element) ==
    IF v = "UNEC" THEN push_with_name_usize(l, h, name, element)
    ELSE push_with_name_vec(l, h, name, element)

\* remove(index) once self.list.remove(index) has not panicked: the name is
\* read from the list AFTER the removal (nec.rs:361), at the same index.
remove_in_range(v, l, h, index) ==
    LET e  == At(l, index)
        l1 == VecRemove(l, index)
    IN  IF ~InBounds(l1, index) THEN Panic(l1, h)
        ELSE LET name == At(l1, index).name
             IN  IF delete_entry_panics(v, h, name) THEN Panic(l1, h)
                 ELSE OkRet(l1, delete_entry(v, h, name, index), e)

\* Faulty variant: an index past the end is taken as the last position.
remove_Clamped(v, l, h, index) ==
    IF Len(l) = 0 THEN Panic(l, h)
    ELSE remove_in_range(v, l, h, IF index < Len(l) THEN index ELSE Len(l) - 1)

\* remove(index): Vec::remove panics when index >= len.
remove(v, l, h, index) ==
    IF ~InBounds(l, index) THEN Panic(l, h) ELSE remove_in_range(v, l, h, index)

\* NamedElementsCollection::new(): both fields empty.
new == Ok(<<>>, EmptyMap)

\* Faulty variant: only the list is cleared.
clear_ListOnly(l, h) == Ok(<<>>, h)

\* clear(): self.list.clear(); self.hmap.clear()
clear(l, h) == Ok(<<>>, EmptyMap)

\* ------------------------------------------------------------ state machine
\* Number of positions the index holds (one per key for UNEC).
RECURSIVE SumLen(_, _)
SumLen(h, S) ==
    IF S = {} THEN 0
    ELSE LET n == CHOOSE x \in S : TRUE IN Len(h[n]) + SumLen(h, S \ {n})

IndexSize(v, h) == IF v = "UNEC" THEN Cardinality(DOMAIN h) ELSE SumLen(h, DOMAIN h)

CanGrow == Len(list) < MaxLen /\ IndexSize(variant, hmap) < MaxEntries

Running == result.outcome = "ok"

\* The collection takes the call c with what it leaves behind r.
Step(c, r) ==
    /\ Running
    /\ list' = r.list
    /\ hmap' = r.hmap
    /\ call' = c
    /\ result' = [f \in DOMAIN r \ {"list", "hmap"} |-> r[f]]
    /\ list0' = list
    /\ hmap0' = hmap
    /\ prev' = call
    /\ UNCHANGED <<variant, indexVars, bulkVars, cloneVars, stepVars>>

\* The variables of the other specifications, at rest.
NecIdle ==
    /\ list = <<>> /\ hmap = EmptyMap /\ call = [op |-> "new"]
    /\ result = [outcome |-> "ok"]
    /\ list0 = <<>> /\ hmap0 = EmptyMap /\ prev = [op |-> "new"]
IndexIdle ==
    dh = EmptyMap /\ dcall = [op |-> "new"] /\ dresult = [outcome |-> "ok"] /\ dh0 = EmptyMap
BulkIdle ==
    source = <<>> /\ built = Ok(<<>>, EmptyMap) /\ bcall = [op |-> "none"]
CloneIdle ==
    objs = <<>> /\ original = 0 /\ cloned = 0 /\ ccall = [op |-> "none"] /\ objs0 = <<>>
StepsIdle ==
    pc = "idle" /\ trace = <<>>

Init ==
    /\ variant \in {"UNEC", "DNEC"}
    /\ list = <<>>
    /\ hmap = EmptyMap
    /\ call = [op |-> "new"]
    /\ result = [outcome |-> "ok"]
    /\ list0 = <<>>
    /\ hmap0 = EmptyMap
    /\ prev = [op |-> "new"]
    /\ dh = EmptyMap
    /\ dcall = [op |-> "new"]
    /\ dresult = [outcome |-> "ok"]
    /\ dh0 = EmptyMap
    /\ BulkIdle
    /\ CloneIdle
    /\ StepsIdle

Push ==
    \E name \in Names, element \in Elems :
        /\ CanGrow
        /\ Step([op |-> "push", name |-> name, elem |-> element],
                push(variant, list, hmap, name, element))

PushWithName ==
    \E name \in Names, element \in Elems :
        /\ CanGrow \/ (variant = "UNEC" /\ name \in DOMAIN hmap)
        /\ Step([op |-> "push_with_name", name |-> name, elem |-> element],
                push_with_name(variant, list, hmap, name, element))

Remove ==
    \E index \in 0..Len(list) :
        Step([op |-> "remove", index |-> index], remove(variant, list, hmap, index))

Clear ==
    \E c \in {[op |-> "clear"]} : Step(c, clear(list, hmap))

Next == Push \/ PushWithName \/ Remove \/ Clear

Spec == Init /\ [][Next]_vars

\* ===================================================== properties (Spec)
\* The names of the bundles of a list.
NamesIn(l) == {l[k].name : k \in 1..Len(l)}

\* The positions of the bundles named n, ascending.
PositionsOfName(l, n) ==
    SelectSeq([k \in 1..Len(l) |-> k - 1], LAMBDA p : At(l, p).name = n)

\* The set of elements of a sequence.
Range(s) == {s[k] : k \in 1..Len(s)}

\* Every position the index stores.
StoredPositions(v, h) ==
    IF v = "UNEC" THEN {h[n] : n \in DOMAIN h} ELSE UNION {Range(h[n]) : n \in DOMAIN h}

\* List and multi index agree.
DnecConsistent(l, h) ==
    /\ DOMAIN h = NamesIn(l)
    /\ \A n \in DOMAIN h : h[n] = PositionsOfName(l, n)

\* List and unique index agree: every bundle's name is bound to its position.
UnecConsistent(l, h) ==
    /\ DOMAIN h = NamesIn(l)
    /\ \A p \in 0..(Len(l) - 1) : h[At(l, p).name] = p

Completed == result.outcome = "ok"

RemoveInRange == call.op = "remove" /\ call.index < Len(list0)

\* C1: DNEC, after every completed call: each name's list is exactly the
\* ascending positions of the bundles with that name, and the lists of all
\* names partition 0..len-1.
C1_DnecIndexMatchesList ==
    (variant = "DNEC" /\ Completed) =>
        /\ \A n \in DOMAIN hmap : hmap[n] = PositionsOfName(list, n)
        /\ \A n \in DOMAIN hmap : Range(hmap[n]) \subseteq 0..(Len(list) - 1)
        /\ \A p \in 0..(Len(list) - 1) :
               Cardinality({n \in DOMAIN hmap : p \in Range(hmap[n])}) = 1

\* C2: UNEC, after every completed call: every bound name points below len at
\* a bundle with that name, and no two names share a position.
C2_UnecIndexMatchesList ==
    (variant = "UNEC" /\ Completed) =>
        /\ \A n \in DOMAIN hmap : hmap[n] < Len(list) /\ get_name(list, hmap[n]) = n
        /\ \A n, m \in DOMAIN hmap : hmap[n] = hmap[m] => n = m

\* C3: size agreement, both variants, after every completed call: the
\* positions stored in the index are exactly 0..len-1.
C3_SizeAgreement ==
    Completed => StoredPositions(variant, hmap) = 0..(len(list) - 1)

\* C5: DNEC remove(p), p < len, from a state where list and index agree: the
\* index afterwards is the index before with p struck from the list of the
\* name the bundle at p had before the shift, and larger positions decremented.
C5_DnecRemoveUsesRemovedName ==
    (variant = "DNEC" /\ RemoveInRange /\ Completed /\ DnecConsistent(list0, hmap0)) =>
        hmap = delete_entry_vec(hmap0, get_name(list0, call.index), call.index)

\* C6: UNEC remove(p), p < len, from a state where every name is bound to its
\* bundle's position: the removed bundle's name is no longer contained, the
\* name of every other bundle still is.
C6_UnecRemoveUnbindsRemovedName ==
    (variant = "UNEC" /\ RemoveInRange /\ Completed /\ UnecConsistent(list0, hmap0)) =>
        /\ ~contains_name(hmap, get_name(list0, call.index))
        /\ \A q \in 0..(Len(list0) - 1) :
               q # call.index => contains_name(hmap, get_name(list0, q))

\* C7: remove(p) with p < len (the last position and a single element
\* included) completes, returns the bundle that was at p, and len drops by one.
C7_RemoveInRangeCompletes ==
    RemoveInRange =>
        /\ result.outcome = "ok"
        /\ result.ret = At(list0, call.index)
        /\ len(list) = len(list0) - 1

\* C8: remove(p) with p < len shifts the store like an array list: bundles
\* below p stay, every bundle from p on is the one that was one place later.
C8_RemoveShiftsList ==
    RemoveInRange =>
        /\ len(list) = len(list0) - 1
        /\ \A q \in 0..(len(list) - 1) :
               At(list, q) = IF q < call.index THEN At(list0, q) ELSE At(list0, q + 1)

\* C8 witness: a completed removal from the middle of three bundles.
C8_Witness ==
    /\ RemoveInRange /\ Completed
    /\ call.index = 1 /\ len(list0) >= 3
    /\ At(list0, 0) # At(list0, 2)

\* C9: remove(p) with p >= len, on an empty collection in particular, panics:
\* no bundle is returned and neither structure changes.
C9_RemoveOutOfRangePanics ==
    (call.op = "remove" /\ call.index >= len(list0)) =>
        /\ result.outcome = "panic"
        /\ "ret" \notin DOMAIN result
        /\ list = list0 /\ hmap = hmap0

\* C9 witness: a remove on an empty collection that panicked.
C9_Witness ==
    call.op = "remove" /\ len(list0) = 0 /\ result.outcome = "panic"

\* Two consecutive UNEC push_with_name calls with one name and two elements.
SameNamePushedTwice ==
    /\ variant = "UNEC"
    /\ call.op = "push_with_name" /\ prev.op = "push_with_name"
    /\ call.name = prev.name /\ call.elem # prev.elem

\* C10: UNEC, push_with_name called again with the same name and another
\* element (the first call returned, or there would be no second): len stays
\* what it was after the first call, and the name looks up the bundle holding
\* the element of the last call.
C10_UnecReplaceKeepsLen ==
    SameNamePushedTwice =>
        /\ Completed
        /\ len(list) = len(list0)
        /\ contains_name(hmap, call.name)
        /\ hmap[call.name] < len(list)
        /\ At(list, hmap[call.name]) = Bundle(call.name, call.elem)
        /\ At(list0, hmap[call.name]) = Bundle(prev.name, prev.elem)

\* C10 witness: the second call completed on a collection of two bundles.
C10_Witness ==
    SameNamePushedTwice /\ Completed /\ len(list) = 2

\* The elements of the bundles named n, in position order.
ElemsOfName(l, n) ==
    LET ps == PositionsOfName(l, n) IN [k \in 1..Len(ps) |-> At(l, ps[k]).elem]

\* C12: DNEC, after every completed call: get_by_name(n) does not abort, is
\* None exactly when no bundle is named n, and otherwise holds the elements
\* of the bundles named n in ascending position order.
C12_DnecGetByName ==
    (variant = "DNEC" /\ Completed) =>
        \A n \in Names :
            get_by_name(list, hmap, n) =
                IF n \in NamesIn(list) THEN Some(ElemsOfName(list, n)) ELSE None

\* C13: UNEC, after every completed call: collection[n] aborts only when
\* contains_name(n) is false; when it is true the element returned is that
\* of the bundle at the bound position, and that bundle is named n.
C13_UnecIndexByName ==
    (variant = "UNEC" /\ Completed) =>
        \A n \in Names :
            LET r == index_by_name(list, hmap, n)
            IN  /\ r = Abort => ~contains_name(hmap, n)
                /\ contains_name(hmap, n) =>
                       /\ r # Abort
                       /\ get_name(list, hmap[n]) = n
                       /\ r = Some(get(list, hmap[n]))

PushReturned == call.op \in {"push", "push_with_name"} /\ Completed

\* C14: after push or push_with_name returns, in either variant: the name is
\* contained, every position the index holds for it is below len and names a
\* bundle of that name, and the name finds the element just pushed
\* (UNEC collection[name], DNEC the last item of get_by_name(name)).
C14_PushViewsAgree ==
    PushReturned =>
        /\ contains_name(hmap, call.name)
        /\ IF variant = "UNEC"
           THEN /\ hmap[call.name] < len(list)
                /\ get_name(list, hmap[call.name]) = call.name
                /\ index_by_name(list, hmap, call.name) = Some(call.elem)
           ELSE /\ \A k \in 1..Len(hmap[call.name]) :
                       /\ hmap[call.name][k] < len(list)
                       /\ get_name(list, hmap[call.name][k]) = call.name
                /\ LET r == get_by_name(list, hmap, call.name)
                   IN  /\ r.kind = "Some"
                       /\ Len(r.val) > 0
                       /\ r.val[Len(r.val)] = call.elem

\* C16: push(element) follows the variant's strategy: UNEC with the name
\* bound to an in-range position p overwrites the bundle at p and keeps len;
\* otherwise (DNEC, or an unbound name) the bundle is appended.
C16_PushFollowsStrategy ==
    (call.op = "push" /\ Completed) =>
        IF variant = "UNEC" /\ contains_name(hmap0, call.name)
        THEN InBounds(list0, hmap0[call.name]) =>
                 list = VecSet(list0, hmap0[call.name], Bundle(call.name, call.elem))
        ELSE list = Append(list0, Bundle(call.name, call.elem))

\* The positions probed by the checked accessors: inside and past the list.
Probes == 0..(Len(list) + 1)

Apply(v, c, l, h) ==
    CASE c.op = "push" -> push(v, l, h, c.name, c.elem)
      [] c.op = "push_with_name" -> push_with_name(v, l, h, c.name, c.elem)
      [] c.op = "remove" -> remove(v, l, h, c.index)
      [] c.op = "clear" -> clear(l, h)

\* C22: after clear() len is 0, is_empty is true, names() is empty and no
\* name is contained: the collection is the one new() gives, and the call
\* made next gives what it gives on new().
C22_ClearResets ==
    /\ call.op = "clear" =>
           /\ Completed
           /\ len(list) = 0 /\ is_empty(list)
           /\ names(hmap) = {}
           /\ \A n \in Names : ~contains_name(hmap, n)
           /\ list = new.list /\ hmap = new.hmap
    /\ prev.op = "clear" =>
           LET r == Apply(variant, call, new.list, new.hmap)
           IN  list = r.list /\ hmap = r.hmap /\ result.outcome = r.outcome

\* C22 witness: clear() called on two bundles under two names.
C22_Witness ==
    call.op = "clear" /\ len(list0) = 2 /\ Cardinality(names(hmap0)) = 2

\* C23: after every completed call names() is exactly the set of the names
\* get_name gives over the positions below len (a set: no name twice), and
\* contains_name(n) is true exactly when some bundle is named n.
C23_NamesAreLiveNames ==
    Completed =>
        /\ names(hmap) = {get_name_option(list, p).val : p \in 0..(len(list) - 1)}
        /\ \A n \in Names : contains_name(hmap, n) <=> n \in NamesIn(list)

\* l is l0 with b added at the end.
ListAppended(l0, l, b) ==
    /\ Len(l) = Len(l0) + 1
    /\ \A k \in 1..Len(l0) : l[k] = l0[k]
    /\ l[Len(l)] = b

\* l is l0 with the bundle at position p replaced by b.
ListReplacedAt(l0, l, p, b) ==
    /\ Len(l) = Len(l0) /\ p < Len(l0)
    /\ l[p + 1] = b
    /\ \A k \in 1..Len(l0) : k # p + 1 => l[k] = l0[k]

\* l is l0 with position p struck: the bundles behind it moved down whole.
ListStruck(l0, l, p) ==
    /\ Len(l) = Len(l0) - 1
    /\ \A k \in 1..Len(l) : l[k] = IF k <= p THEN l0[k] ELSE l0[k + 1]

\* C24: every call keeps each element with the name it was stored under: a
\* push or replacement stores the bundle (call.name, call.elem) and leaves
\* the other bundles whole, a remove moves the bundles behind the position
\* down with their names, clear leaves none.
C24_NameFidelity ==
    /\ call.op \in {"push", "push_with_name"} =>
           \/ ListAppended(list0, list, Bundle(call.name, call.elem))
           \/ \E p \in 0..(Len(list0) - 1) :
                  ListReplacedAt(list0, list, p, Bundle(call.name, call.elem))
           \/ ~Completed /\ list = list0
    /\ call.op = "remove" =>
           IF call.index < Len(list0) THEN ListStruck(list0, list, call.index)
           ELSE list = list0
    /\ call.op \in {"new", "clear"} => list = <<>>

\* C24 witness: a remove moved a bundle down, and a bundle was replaced.
C24_Witness ==
    /\ variant = "UNEC" /\ call.op = "push_with_name" /\ Completed
    /\ prev.op = "remove" /\ Len(list) = Len(list0)
    /\ list # list0

\* C26: UNEC push_with_name(name, e) with name bound to p returns, the
\* bundle at p is (name, e), every other bundle, len and every binding of
\* the index are as before.
C26_UnecReplaceFrame ==
    (variant = "UNEC" /\ call.op = "push_with_name" /\ contains_name(hmap0, call.name)) =>
        /\ Completed
        /\ ListReplacedAt(list0, list, hmap0[call.name], Bundle(call.name, call.elem))
        /\ hmap = hmap0

\* C27: DNEC push_with_name(name, e) returns with the bundle appended at
\* the old len, the old len added at the end of the name's position list
\* (created if absent), every other list of the index as before; and
\* replace_entry leaves the multi index as it is.
C27_DnecAlwaysAppends ==
    (variant = "DNEC" /\ call.op = "push_with_name") =>
        /\ Completed
        /\ ListAppended(list0, list, Bundle(call.name, call.elem))
        /\ len(list) = len(list0) + 1
        /\ DOMAIN hmap = DOMAIN hmap0 \cup {call.name}
        /\ hmap[call.name] =
               Append(IF call.name \in DOMAIN hmap0 THEN hmap0[call.name] ELSE <<>>,
                      len(list0))
        /\ \A n \in DOMAIN hmap0 \ {call.name} : hmap[n] = hmap0[n]
        /\ \A n \in Names, index \in 0..len(list) :
               replace_entry_vec(hmap, n, index) = hmap

\* C27 witness: the name pushed was already present.
C27_Witness ==
    /\ variant = "DNEC" /\ call.op = "push_with_name" /\ Completed
    /\ contains_name(hmap0, call.name) /\ len(list0) = 2

\* C28: after every completed call, every position the index stores is
\* below len.
C28_NoDanglingIndex ==
    Completed => \A p \in StoredPositions(variant, hmap) : p < len(list)

PosLists == UNION {[1..k -> 0..MaxPos] : k \in 0..MaxListLen}

\* The index of the doc test of delete_entry (adjustable.rs:113-114).
DocIndex == [n \in {"A", "B"} |->
                IF n = "A" THEN <<0, 2, 3, 5, 6, 9>> ELSE <<1, 4, 7, 8>>]

\* The six-element index A -> [0,2,3,5], B -> [1,4].
SixIndex == [n \in {"A", "B"} |-> IF n = "A" THEN <<0, 2, 3, 5>> ELSE <<1, 4>>]

InputIndexes ==
    UNION {[S -> PosLists] : S \in SUBSET IndexNames} \cup {DocIndex, SixIndex}

\* The positions a map holds.
Positions(h) == UNION {{h[n][k] : k \in 1..Len(h[n])} : n \in DOMAIN h}

InitIndex ==
    /\ variant = "DNEC"
    /\ list = <<>>
    /\ hmap = EmptyMap
    /\ call = [op |-> "new"]
    /\ result = [outcome |-> "ok"]
    /\ list0 = <<>>
    /\ hmap0 = EmptyMap
    /\ prev = [op |-> "new"]
    /\ dh \in InputIndexes
    /\ dcall = [op |-> "new"]
    /\ dresult = [outcome |-> "ok"]
    /\ dh0 = dh
    /\ BulkIdle
    /\ CloneIdle
    /\ StepsIdle

\* h.delete_entry(name, index) on a HashMap<String, Vec<usize>>.
DeleteEntry ==
    \E name \in IndexNames, index \in (0..MaxPos) \cup Positions(dh) :
        /\ dresult.outcome = "ok"
        /\ dcall' = [op |-> "delete_entry", name |-> name, index |-> index]
        /\ dh0' = dh
        /\ IF delete_entry_vec_panics(dh, name)
           THEN dh' = dh /\ dresult' = [outcome |-> "panic"]
           ELSE dh' = delete_entry_vec(dh, name, index) /\ dresult' = [outcome |-> "ok"]
        /\ UNCHANGED <<necVars, bulkVars, cloneVars, stepVars>>

NextIndex == DeleteEntry

SpecIndex == InitIndex /\ [][NextIndex]_vars

\* ================================================ properties (SpecIndex)
\* index occurs exactly once in the whole map h, and in name's list.
OccursOnceIn(h, name, index) ==
    /\ name \in DOMAIN h
    /\ \E k \in 1..Len(h[name]) : h[name][k] = index
    /\ Cardinality({<<n, k>> \in UNION {{n} \X (1..Len(h[n])) : n \in DOMAIN h} :
                        h[n][k] = index}) = 1

\* A stored position after a removal at index.
Shifted(p, index) == IF p > index THEN p - 1 ELSE p

\* C4: delete_entry(name, position) on a multi index in which position occurs
\* exactly once, in name's list: that entry is struck from name's list, name
\* is dropped if the list empties, every other entry of every list stays in
\* place, decreased by one if it was larger than position and unchanged if
\* smaller.  The value position is then absent from name's list unless
\* position + 1 was in it (which is renumbered to position).
C4_MultiDeleteEntry ==
    (dcall.op = "delete_entry" /\ OccursOnceIn(dh0, dcall.name, dcall.index)) =>
        LET name   == dcall.name
            index  == dcall.index
            struck == CHOOSE k \in 1..Len(dh0[name]) : dh0[name][k] = index
        IN  /\ dresult.outcome = "ok"
            /\ DOMAIN dh = IF Len(dh0[name]) = 1 THEN DOMAIN dh0 \ {name} ELSE DOMAIN dh0
            /\ \A n \in DOMAIN dh \ {name} :
                   /\ Len(dh[n]) = Len(dh0[n])
                   /\ \A k \in 1..Len(dh[n]) : dh[n][k] = Shifted(dh0[n][k], index)
            /\ name \in DOMAIN dh =>
                   /\ Len(dh[name]) = Len(dh0[name]) - 1
                   /\ \A k \in 1..Len(dh[name]) :
                          dh[name][k] =
                              Shifted(dh0[name][IF k < struck THEN k ELSE k + 1], index)
                   /\ (\A k \in 1..Len(dh0[name]) : dh0[name][k] # index + 1) =>
                          (\A k \in 1..Len(dh[name]) : dh[name][k] # index)

\* C4 witness: A -> [0,2,3,5], B -> [1,4] and delete_entry(A, 0) give
\* A -> [1,2,4], B -> [0,3].
C4_Witness ==
    /\ dcall = [op |-> "delete_entry", name |-> "A", index |-> 0]
    /\ dh0 = SixIndex
    /\ dh = [n \in {"A", "B"} |-> IF n = "A" THEN <<1, 2, 4>> ELSE <<0, 3>>]

\* ------------------------------------------- building from a whole Vec

\* One step of a building loop; a panic ends the loop.
RECURSIVE LoopPushPrivate(_, _, _)
LoopPushPrivate(v, acc, s) ==
    IF s = <<>> \/ acc.outcome # "ok" THEN acc
    ELSE LoopPushPrivate(v,
             push_with_name_private(v, acc.list, acc.hmap, Head(s).name, Head(s).elem),
             Tail(s))

RECURSIVE LoopPush(_, _, _)
LoopPush(v, acc, s) ==
    IF s = <<>> \/ acc.outcome # "ok" THEN acc
    ELSE LoopPush(v, push(v, acc.list, acc.hmap, Head(s).name, Head(s).elem), Tail(s))

RECURSIVE LoopPushWithName(_, _, _)
LoopPushWithName(v, acc, s) ==
    IF s = <<>> \/ acc.outcome # "ok" THEN acc
    ELSE LoopPushWithName(v,
             push_with_name(v, acc.list, acc.hmap, Head(s).name, Head(s).elem),
             Tail(s))

\* Faulty variant: a pair whose name is already contained is dropped.
RECURSIVE LoopPushPrivate_SkipKnown(_, _, _)
LoopPushPrivate_SkipKnown(v, acc, s) ==
    IF s = <<>> THEN acc
    ELSE LoopPushPrivate_SkipKnown(v,
             IF contains_name(acc.hmap, Head(s).name) THEN acc
             ELSE push_with_name_private(v, acc.list, acc.hmap, Head(s).name, Head(s).elem),
             Tail(s))

from_pairs_SkipKnown(v, s) == LoopPushPrivate_SkipKnown(v, new, s)

\* From<Vec<(String, Element)>>::from: new(), then
\* for e in source { collection._push_with_name(&e.0, e.1) }
from_pairs(v, s) == LoopPushPrivate(v, new, s)

\* From<Vec<Element>>::from: new(), then for e in source { collection.push(e) }
from_elements(v, s) == LoopPush(v, new, s)

\* new(), then push_with_name(name, element) for each pair in order.
push_with_name_each(v, s) == LoopPushWithName(v, new, s)

\* The iterator over &collection: self.list.iter(), each item mapped to &v.elem
iter(l) == [k \in 1..Len(l) |-> l[k].elem]

\* The input Vecs: every sequence of at most MaxLen (name, element) pairs.
Sources == UNION {[1..n -> {Bundle(name, element) : name \in Names, element \in Elems}] : n \in 0..MaxLen}

InitBulk ==
    /\ variant \in {"UNEC", "DNEC"}
    /\ NecIdle
    /\ IndexIdle
    /\ CloneIdle
    /\ StepsIdle
    /\ source \in Sources
    /\ built = new
    /\ bcall = [op |-> "none"]

Build(c, r) ==
    /\ bcall.op = "none"
    /\ built' = r
    /\ bcall' = c
    /\ UNCHANGED <<source, necVars, indexVars, cloneVars, stepVars>>

FromPairs == \E c \in {[op |-> "from_pairs"]} : Build(c, from_pairs(variant, source))

FromElements == \E c \in {[op |-> "from_elements"]} : Build(c, from_elements(variant, source))

PushWithNameEach ==
    \E c \in {[op |-> "push_with_name_each"]} : Build(c, push_with_name_each(variant, source))

NextBulk == FromPairs \/ FromElements \/ PushWithNameEach

SpecBulk == InitBulk /\ [][NextBulk]_vars

\* C11: DNEC, a collection built by pushes alone: len is the number of pushes,
\* and for every name pushed k >= 1 times get_by_name holds exactly the k
\* elements pushed under it, in push order.
C11_DnecAppendKeepsPushOrder ==
    (variant = "DNEC" /\ bcall.op = "push_with_name_each") =>
        /\ built.outcome = "ok"
        /\ len(built.list) = Len(source)
        /\ \A n \in NamesIn(source) :
               get_by_name(built.list, built.hmap, n) = Some(ElemsOfName(source, n))

\* C11 witness: A pushed twice with different elements, B pushed in between.
C11_Witness ==
    /\ variant = "DNEC" /\ bcall.op = "push_with_name_each"
    /\ source = <<Bundle("A", "e2"), Bundle("B", "e1"), Bundle("A", "e1")>>

\* C15: the collection From<Vec<(String, Element)>> builds has the list and
\* the name index that push_with_name for each pair in order gives on new().
C15_FromPairsIsFoldOfPushWithName ==
    bcall.op = "from_pairs" =>
        LET folded == push_with_name_each(variant, source)
        IN  /\ built.outcome = folded.outcome
            /\ built.list = folded.list
            /\ built.hmap = folded.hmap

CopyCollection_ListOnly(o) ==
    [list |-> [k \in 1..Len(o.list) |-> Bundle(o.list[k].name, o.list[k].elem)],
     hmap |-> EmptyMap]

\* The derived Clone: each field cloned, Vec<ElementBundle> bundle by bundle
\* (name and element), HashMap entry by entry.
CopyCollection(o) ==
    [list |-> [k \in 1..Len(o.list) |-> Bundle(o.list[k].name, o.list[k].elem)],
     hmap |-> [n \in DOMAIN o.hmap |-> o.hmap[n]]]

\* Faulty variant: the new handle refers to the collection it was cloned from.
clone_Shared(os, id) == [objs |-> os, id |-> id]

\* clone(): a new collection holding the copy; the source is only read.
clone(os, id) == [objs |-> Append(os, CopyCollection(os[id])), id |-> Len(os) + 1]

\* The handles in scope and the collection behind each.
Handles == IF cloned = 0 THEN {"original"} ELSE {"original", "cloned"}
IdOf(handle) == IF handle = "original" THEN original ELSE cloned
Obj(handle) == objs[IdOf(handle)]

InitClone ==
    /\ variant \in {"UNEC", "DNEC"}
    /\ NecIdle
    /\ IndexIdle
    /\ BulkIdle
    /\ StepsIdle
    /\ objs = <<[list |-> <<>>, hmap |-> EmptyMap]>>
    /\ original = 1
    /\ cloned = 0
    /\ ccall = [op |-> "new", on |-> "original", outcome |-> "ok", n |-> 0]
    /\ objs0 = objs

\* A call made through a handle: it changes the collection behind the handle.
StepOn(handle, op, r) ==
    /\ ccall.outcome = "ok"
    /\ ccall.n < MaxCalls
    /\ objs' = [objs EXCEPT ![IdOf(handle)] = [list |-> r.list, hmap |-> r.hmap]]
    /\ ccall' = [op |-> op, on |-> handle, outcome |-> r.outcome, n |-> ccall.n + 1]
    /\ objs0' = objs
    /\ UNCHANGED <<original, cloned, necVars, indexVars, bulkVars, stepVars>>

Clone ==
    /\ ccall.outcome = "ok"
    /\ ccall.n < MaxCalls
    /\ cloned = 0
    /\ LET r == clone(objs, original)
       IN  objs' = r.objs /\ cloned' = r.id
    /\ ccall' = [op |-> "clone", on |-> "original", outcome |-> "ok", n |-> ccall.n + 1]
    /\ objs0' = objs
    /\ UNCHANGED <<original, necVars, indexVars, bulkVars, stepVars>>

PushOn ==
    \E handle \in Handles, name \in IndexNames, element \in Elems :
        StepOn(handle, "push",
               push(variant, Obj(handle).list, Obj(handle).hmap, name, element))

PushWithNameOn ==
    \E handle \in Handles, name \in IndexNames, element \in Elems :
        StepOn(handle, "push_with_name",
               push_with_name(variant, Obj(handle).list, Obj(handle).hmap, name, element))

RemoveOn ==
    \E handle \in Handles :
        \E index \in 0..Len(Obj(handle).list) :
            StepOn(handle, "remove",
                   remove(variant, Obj(handle).list, Obj(handle).hmap, index))

ClearOn ==
    \E handle \in Handles :
        StepOn(handle, "clear", clear(Obj(handle).list, Obj(handle).hmap))

\* collection[index] and &mut collection[index] through a handle: the
\* collection is only borrowed, the call returns a reference or aborts.
IndexOn ==
    \E handle \in Handles, op \in {"index", "index_mut"} :
        \E index \in 0..(Len(Obj(handle).list) + 1) :
            /\ ccall.outcome = "ok"
            /\ ccall.n < MaxCalls
            /\ LET r == IF op = "index" THEN index_by_position(Obj(handle).list, index)
                        ELSE index_mut_by_position(Obj(handle).list, index)
               IN  ccall' = [op |-> op, on |-> handle,
                             outcome |-> IF r = Abort THEN "panic" ELSE "ok",
                             n |-> ccall.n + 1, index |-> index, ret |-> r]
            /\ objs0' = objs
            /\ UNCHANGED <<objs, original, cloned, necVars, indexVars, bulkVars, stepVars>>

NextClone == Clone \/ PushOn \/ PushWithNameOn \/ RemoveOn \/ ClearOn \/ IndexOn

SpecClone == InitClone /\ [][NextClone]_vars

\* What the public queries show of a collection: len, names(), the name
\* index, contains_name, and the name and element at every position.
Observed(o) ==
    [len      |-> len(o.list),
     names    |-> names(o.hmap),
     index    |-> o.hmap,
     contains |-> [n \in Names |-> contains_name(o.hmap, n)],
     name_at  |-> [p \in 0..(len(o.list) - 1) |-> get_name_option(o.list, p)],
     elem_at  |-> [p \in 0..(len(o.list) - 1) |-> get_option(o.list, p)]]

\* C18: once the clone exists, a push_with_name, push, remove or clear made
\* on the clone leaves everything observable of the original as it was, and
\* one made on the original leaves the clone as it was.
C18_CloneIndependence ==
    (cloned # 0 /\ ccall.op # "clone") =>
        /\ ccall.on = "cloned" => Observed(objs[original]) = Observed(objs0[original])
        /\ ccall.on = "original" => Observed(objs[cloned]) = Observed(objs0[cloned])

\* C18 witness: a call on the clone changed the clone, which held a bundle.
C18_Witness ==
    /\ cloned # 0 /\ ccall.op = "remove" /\ ccall.on = "cloned"
    /\ len(objs0[cloned].list) = 2
    /\ objs[cloned] # objs0[cloned]
    /\ len(objs[original].list) = 2

\* C19: right after clone() the clone shows the same len, the same name and
\* element at every position, the same names() and the same contains_name
\* answers as the source showed before the call, and the source still shows
\* them.
C19_CloneEqualsSource ==
    ccall.op = "clone" =>
        LET before == Observed(objs0[original])
            src == Observed(objs[original])
            cpy == Observed(objs[cloned])
        IN  /\ cpy.len = before.len
            /\ cpy.name_at = before.name_at
            /\ cpy.elem_at = before.elem_at
            /\ cpy.names = before.names
            /\ cpy.contains = before.contains
            /\ src = before

\* C19 witness: the source cloned held two bundles under two names.
C19_Witness ==
    /\ ccall.op = "clone"
    /\ len(objs0[original].list) = 2
    /\ Cardinality(names(objs0[original].hmap)) = 2

\* C21: collection[i] and &mut collection[i] abort exactly when i >= len and
\* otherwise return the element get(i) returns; the collection is as it was.
C21_IndexIsUnwrappedGet ==
    ccall.op \in {"index", "index_mut"} =>
        LET l == objs0[IdOf(ccall.on)].list
        IN  /\ ccall.outcome = "panic" <=> ccall.index >= len(l)
            /\ ccall.index < len(l) =>
                   /\ ccall.outcome = "ok"
                   /\ ccall.ret = get_option(l, ccall.index)
                   /\ ccall.ret = Some(l[ccall.index + 1].elem)
            /\ objs = objs0

\* C21 witness: the second of two bundles with different elements is read.
C21_Witness ==
    /\ ccall.op = "index" /\ ccall.index = 1 /\ ccall.outcome = "ok"
    /\ len(Obj(ccall.on).list) = 2
    /\ get_option(Obj(ccall.on).list, 0) # get_option(Obj(ccall.on).list, 1)

\* C25: the clone holds the list and the name index that pushing each
\* (get_name(i), get(i)) of the source, in position order, gives on new().
C25_CloneIsRepush ==
    ccall.op = "clone" =>
        LET src == objs0[original]
            pairs == [k \in 1..len(src.list) |->
                         Bundle(get_name_option(src.list, k - 1).val,
                                get_option(src.list, k - 1).val)]
            repushed == from_pairs(variant, pairs)
        IN  /\ objs[cloned].list = repushed.list
            /\ objs[cloned].hmap = repushed.hmap

\* ------------------------------------------- the calls statement by statement

\* One write of a call: the structure written and the position involved.
Wrote(on, pos) == [on |-> on, pos |-> pos]

InitSteps ==
    /\ variant \in {"UNEC", "DNEC"}
    /\ list = <<>> /\ hmap = EmptyMap
    /\ call = [op |-> "new", n |-> 0]
    /\ result = [outcome |-> "ok"]
    /\ list0 = <<>> /\ hmap0 = EmptyMap /\ prev = [op |-> "new"]
    /\ IndexIdle
    /\ BulkIdle
    /\ CloneIdle
    /\ StepsIdle

\* A new call may start: the last one returned.
CanCall == pc = "idle" /\ result.outcome = "ok" /\ call.n < MaxCalls

\* What a statement leaves alone besides the collection's two fields.
StatementFrame == UNCHANGED <<variant, prev, indexVars, bulkVars, cloneVars>>

Enter(c) ==
    /\ CanCall
    /\ call' = [c EXCEPT !.n = call.n + 1]
    /\ list0' = list
    /\ hmap0' = hmap
    /\ StatementFrame

Within == UNCHANGED <<call, list0, hmap0>> /\ StatementFrame

Aborted ==
    /\ result' = [outcome |-> "panic"]
    /\ pc' = "panicked"
    /\ UNCHANGED <<list, hmap, trace>>

\* push, first statement: self.hmap.add_entry(&name, self.list.len())
PushAddEntry ==
    \E name \in IndexNames, element \in Elems :
        /\ Enter([op |-> "push", name |-> name, elem |-> element, n |-> 0])
        /\ hmap' = add_entry(variant, hmap, name, Len(list))
        /\ trace' = <<Wrote("hmap", Len(list))>>
        /\ pc' = "push_list"
        /\ UNCHANGED <<list, result>>

\* push, second statement: self.list.push(ElementBundle { .. })
PushListPush ==
    /\ pc = "push_list"
    /\ list' = Append(list, Bundle(call.name, call.elem))
    /\ trace' = Append(trace, Wrote("list", Len(list)))
    /\ pc' = "idle"
    /\ UNCHANGED <<hmap, result>>
    /\ Within

\* push_with_name, up to its write to the list: UNEC with the name a key
\* does self.list[index] = bundle, every other case self.list.push(bundle).
PushWithNameList ==
    \E name \in IndexNames, element \in Elems :
        /\ Enter([op |-> "push_with_name", name |-> name, elem |-> element, n |-> 0])
        /\ IF variant = "UNEC" /\ name \in DOMAIN hmap
           THEN IF ~InBounds(list, hmap[name]) THEN Aborted
                ELSE /\ list' = VecSet(list, hmap[name], Bundle(name, element))
                     /\ trace' = <<Wrote("list", hmap[name])>>
                     /\ pc' = "replace_entry"
                     /\ UNCHANGED <<hmap, result>>
           ELSE /\ list' = Append(list, Bundle(name, element))
                /\ trace' = <<Wrote("list", Len(list))>>
                /\ pc' = "add_entry"
                /\ UNCHANGED <<hmap, result>>

\* _push_with_name, the rest: let index = self.list.len() - 1;
\* self.hmap.add_entry(name, index)
PushWithNameAddEntry ==
    /\ pc = "add_entry"
    /\ hmap' = add_entry(variant, hmap, call.name, Len(list) - 1)
    /\ trace' = Append(trace, Wrote("hmap", Len(list) - 1))
    /\ pc' = "idle"
    /\ UNCHANGED <<list, result>>
    /\ Within

\* UNEC push_with_name, the rest: self.hmap.replace_entry(name, index)
PushWithNameReplaceEntry ==
    /\ pc = "replace_entry"
    /\ hmap' = replace_entry_usize(hmap, call.name, hmap[call.name])
    /\ trace' = Append(trace, Wrote("hmap", hmap[call.name]))
    /\ pc' = "idle"
    /\ UNCHANGED <<list, result>>
    /\ Within

\* remove, first statement: let e = self.list.remove(index)
RemoveListRemove ==
    \E index \in 0..Len(list) :
        /\ Enter([op |-> "remove", index |-> index, n |-> 0])
        /\ IF ~InBounds(list, index) THEN Aborted
           ELSE /\ list' = VecRemove(list, index)
                /\ trace' = <<Wrote("list", index)>>
                /\ pc' = "remove_entry"
                /\ UNCHANGED <<hmap, result>>

\* remove, the rest: let name = self.list.get(index).unwrap().name.0.clone();
\* self.hmap.remove_entry(&name, index)
RemoveDeleteEntry ==
    /\ pc = "remove_entry"
    /\ IF ~InBounds(list, call.index) THEN Aborted
       ELSE LET name == At(list, call.index).name
            IN  IF delete_entry_panics(variant, hmap, name) THEN Aborted
                ELSE /\ hmap' = delete_entry(variant, hmap, name, call.index)
                     /\ trace' = Append(trace, Wrote("hmap", call.index))
                     /\ pc' = "idle"
                     /\ UNCHANGED <<list, result>>
    /\ Within

NextSteps ==
    \/ PushAddEntry \/ PushListPush
    \/ PushWithNameList \/ PushWithNameAddEntry \/ PushWithNameReplaceEntry
    \/ RemoveListRemove \/ RemoveDeleteEntry

SpecSteps == InitSteps /\ [][NextSteps]_vars

\* The statements of a call, run to its end, leave what the call as a whole
\* leaves.
StepsAgreeWithCalls ==
    (pc \in {"idle", "panicked"} /\ call.op # "new") =>
        LET r == Apply(variant, call, list0, hmap0)
        IN  list = r.list /\ hmap = r.hmap /\ result.outcome = r.outcome

\* C30: a push, push_with_name or remove that has returned wrote the list
\* first and the index second, and handed the index the position it wrote
\* in the list: where the pushed bundle now is, or the position removed.
C30_StoreBeforeIndex ==
    (pc = "idle" /\ call.op \in {"push", "push_with_name", "remove"} /\ Completed) =>
        /\ Len(trace) = 2
        /\ trace[1].on = "list" /\ trace[2].on = "hmap"
        /\ trace[2].pos = trace[1].pos
        /\ call.op = "remove" => trace[2].pos = call.index
        /\ call.op # "remove" =>
               /\ InBounds(list, trace[2].pos)
               /\ At(list, trace[2].pos) = Bundle(call.name, call.elem)

----------------------------------------------------------------------------
\* Iteration.  Each of the three iterators wraps the Vec's own iterator and
\* hands out the elem of the bundle the wrapped iterator is at; cursor is the
\* number of items already handed out.

\* Faulty variant: the iterator starts past the first bundle.
NecIter_next_SkipFirst(l, cursor) ==
    IF cursor + 1 < Len(l) THEN Some(At(l, cursor + 1).elem) ELSE None

\* NecIter::next: match self.iter.next() { Some(v) => Some(&v.elem), None => None }
NecIter_next(l, cursor) ==
    IF cursor < Len(l) THEN Some(At(l, cursor).elem) ELSE None

\* NecIterMut::next: the same match, giving &mut v.elem
NecIterMut_next(l, cursor) ==
    IF cursor < Len(l) THEN Some(At(l, cursor).elem) ELSE None

\* NecIntoIterator::next: the same match on the consumed Vec, giving v.elem
NecIntoIterator_next(l, cursor) ==
    IF cursor < Len(l) THEN Some(At(l, cursor).elem) ELSE None

\* The items a for loop gets: next() is called until it gives None.
RECURSIVE DrainIter(_, _)
DrainIter(l, cursor) ==
    LET item == NecIter_next(l, cursor)
    IN  IF item = None THEN <<>> ELSE <<item.val>> \o DrainIter(l, cursor + 1)

RECURSIVE DrainIterMut(_, _)
DrainIterMut(l, cursor) ==
    LET item == NecIterMut_next(l, cursor)
    IN  IF item = None THEN <<>> ELSE <<item.val>> \o DrainIterMut(l, cursor + 1)

RECURSIVE DrainIntoIter(_, _)
DrainIntoIter(l, cursor) ==
    LET item == NecIntoIterator_next(l, cursor)
    IN  IF item = None THEN <<>> ELSE <<item.val>> \o DrainIntoIter(l, cursor + 1)

\* iter_mut(): self.into_iter() on &mut self
iter_mut(l) == DrainIterMut(l, 0)

\* into_iter() on the collection itself
into_iter(l) == DrainIntoIter(l, 0)

\* C34: in every state, iterating by reference, by mutable reference and by
\* consuming ends after exactly len() items, the i-th item is the element
\* get(i), and iter() gives the same sequence as the loop over &collection.
C34_IterationInPositionOrder ==
    /\ Len(DrainIter(list, 0)) = len(list)
    /\ Len(iter_mut(list)) = len(list)
    /\ Len(into_iter(list)) = len(list)
    /\ iter(list) = DrainIter(list, 0)
    /\ \A i \in 0..(len(list) - 1) :
           /\ Some(DrainIter(list, 0)[i + 1]) = get_option(list, i)
           /\ Some(iter_mut(list)[i + 1]) = get_mut_option(list, i)
           /\ Some(into_iter(list)[i + 1]) = get_option(list, i)

\* A collection of three bundles holding two different elements.
C34_Witness ==
    /\ len(list) = 3
    /\ get(list, 0) # get(list, 1)
    /\ iter(list) = <<get(list, 0), get(list, 1), get(list, 2)>>

----------------------------------------------------------------------------
\* Push followed by remove of the last position, and failing removes.

AllButLast(s) == SubSeq(s, 1, Len(s) - 1)

Consistent(v, l, h) == IF v = "UNEC" THEN UnecConsistent(l, h) ELSE DnecConsistent(l, h)

\* The last call is remove(len-1), the call before it pushed a bundle under a
\* name that was not present, and list and index agreed before that push.
RemoveOfFreshPush ==
    /\ call.op = "remove"
    /\ prev.op \in {"push", "push_with_name"}
    /\ Len(list0) > 0
    /\ call.index = Len(list0) - 1
    /\ At(list0, call.index).name = prev.name
    /\ prev.name \notin NamesIn(AllButLast(list0))
    /\ Consistent(variant, AllButLast(list0), MapRemove(hmap0, prev.name))

\* C37: from a state where list and index agree, pushing under a name not yet
\* present and then remove(len-1) completes and leaves the list and the index
\* exactly as they were before the push.
C37_PushRemoveInverse ==
    RemoveOfFreshPush =>
        /\ Completed
        /\ list = AllButLast(list0)
        /\ hmap = MapRemove(hmap0, prev.name)

\* C38: when remove aborts, the list and the index are as they were before
\* the call.
C38_FailedRemoveChangesNothing ==
    (call.op = "remove" /\ ~Completed) => (list = list0 /\ hmap = hmap0)

----------------------------------------------------------------------------
\* The collection grown from new() without remove.  The call record also
\* carries the names pushed since the last clear.

PushedSoFar == IF "pushed" \in DOMAIN call THEN call.pushed ELSE {}

GrowPush ==
    \E name \in Names, element \in Elems :
        /\ variant = "DNEC"
        /\ CanGrow
        /\ Step([op |-> "push", name |-> name, elem |-> element,
                 pushed |-> PushedSoFar \cup {name}],
                push(variant, list, hmap, name, element))

GrowPushWithName ==
    \E name \in Names, element \in Elems :
        /\ CanGrow \/ (variant = "UNEC" /\ name \in DOMAIN hmap)
        /\ Step([op |-> "push_with_name", name |-> name, elem |-> element,
                 pushed |-> PushedSoFar \cup {name}],
                push_with_name(variant, list, hmap, name, element))

GrowClear ==
    \E c \in {[op |-> "clear", pushed |-> {}]} : Step(c, clear(list, hmap))

NextGrow == GrowPush \/ GrowPushWithName \/ GrowClear

SpecGrow == Init /\ [][NextGrow]_vars

\* C35: UNEC reached from new() by push_with_name and clear only: the index
\* binds exactly the names pushed since the last clear, one to one onto the
\* positions 0..len-1, get_name(index[n]) is n for every bound name n, and
\* len is the number of distinct names pushed.
C35_UnecBijection ==
    variant = "UNEC" =>
        /\ DOMAIN hmap = PushedSoFar
        /\ \A n, m \in DOMAIN hmap : hmap[n] = hmap[m] => n = m
        /\ {hmap[n] : n \in DOMAIN hmap} = 0..(len(list) - 1)
        /\ \A n \in DOMAIN hmap : get_name_option(list, hmap[n]) = Some(n)
        /\ len(list) = Cardinality(PushedSoFar)

\* UNEC: two names are held and the last call replaced the element of one.
C35_Witness ==
    /\ variant = "UNEC"
    /\ call.op = "push_with_name"
    /\ call.name \in DOMAIN hmap0
    /\ list # list0
    /\ len(list) = 2
    /\ PushedSoFar = {"A", "B"}

StrictlyAscending(s) == \A j, k \in 1..Len(s) : j < k => s[j] < s[k]

\* C36: DNEC reached from new() by push, push_with_name and clear only: each
\* name's list is strictly ascending, the lists are pairwise disjoint, their
\* lengths sum to len, and p is in the list of n exactly when get_name(p) is n.
C36_DnecPartition ==
    variant = "DNEC" =>
        /\ \A n \in DOMAIN hmap : StrictlyAscending(hmap[n])
        /\ \A n, m \in DOMAIN hmap : n # m => Range(hmap[n]) \cap Range(hmap[m]) = {}
        /\ SumLen(hmap, DOMAIN hmap) = len(list)
        /\ \A n \in Names, p \in 0..(MaxLen + 1) :
               (n \in DOMAIN hmap /\ p \in Range(hmap[n])) <=> get_name_option(list, p) = Some(n)

\* DNEC: three bundles under two names, the first name pushed by push and by
\* push_with_name.
C36_Witness ==
    /\ variant = "DNEC"
    /\ len(list) = 3
    /\ prev.op = "push"
    /\ call.op = "push_with_name"
    /\ \E n \in DOMAIN hmap : Len(hmap[n]) = 2
    /\ Cardinality(DOMAIN hmap) = 2

----------------------------------------------------------------------------
\* The index on its own, filled from HashMap::new() through the Adjustable
\* trait as the doc tests of adjustable.rs do.  The call record also carries
\* the names given to add_entry so far.

replace_entry(v, h, name, index) ==
    IF v = "UNEC" THEN replace_entry_usize(h, name, index) ELSE replace_entry_vec(h, name, index)

InitEntries ==
    /\ variant \in {"UNEC", "DNEC"}
    /\ list = <<>>
    /\ hmap = EmptyMap
    /\ call = [op |-> "new"]
    /\ result = [outcome |-> "ok"]
    /\ list0 = <<>>
    /\ hmap0 = EmptyMap
    /\ prev = [op |-> "new"]
    /\ dh = EmptyMap
    /\ dcall = [op |-> "new", added |-> {}]
    /\ dresult = [outcome |-> "ok"]
    /\ dh0 = EmptyMap
    /\ BulkIdle
    /\ CloneIdle
    /\ StepsIdle

\* The index takes one trait call and becomes h.
EntryStep(c, h) ==
    /\ dcall' = c
    /\ dh0' = dh
    /\ dh' = h
    /\ dresult' = [outcome |-> "ok"]
    /\ UNCHANGED <<necVars, bulkVars, cloneVars, stepVars>>

RoomFor(name) ==
    \/ IndexSize(variant, dh) < MaxEntries
    \/ variant = "UNEC" /\ name \in DOMAIN dh

\* h.add_entry(name, index)
AddEntry ==
    \E name \in IndexNames, index \in 0..MaxPos :
        /\ RoomFor(name)
        /\ EntryStep([op |-> "add_entry", name |-> name, index |-> index,
                      added |-> dcall.added \cup {name}],
                     add_entry(variant, dh, name, index))

\* h.replace_entry(name, index)
ReplaceEntry ==
    \E name \in IndexNames, index \in 0..MaxPos :
        /\ RoomFor(name) \/ variant = "DNEC"
        /\ EntryStep([op |-> "replace_entry", name |-> name, index |-> index,
                      added |-> dcall.added],
                     replace_entry(variant, dh, name, index))

\* h.delete_entry(name, index) on a HashMap<String, usize>
DeleteEntryUsize ==
    \E name \in IndexNames, index \in 0..MaxPos :
        /\ variant = "UNEC"
        /\ EntryStep([op |-> "delete_entry", name |-> name, index |-> index,
                      added |-> dcall.added],
                     delete_entry_usize(dh, name, index))

NextEntries == AddEntry \/ ReplaceEntry \/ DeleteEntryUsize

SpecEntries == InitEntries /\ [][NextEntries]_vars

\* Every name other than the one of the last call is bound as before.
OthersUntouched ==
    /\ DOMAIN dh \ {dcall.name} = DOMAIN dh0 \ {dcall.name}
    /\ \A n \in DOMAIN dh0 \ {dcall.name} : dh[n] = dh0[n]

KeysGrewBy(k) == Cardinality(DOMAIN dh) = Cardinality(DOMAIN dh0) + k

\* C31: unique index, delete_entry(name, position): name is unbound whatever
\* position was given, the number of keys drops by one when name was bound and
\* by zero otherwise, and every other name keeps its position (no renumbering).
C31_UniqueDeleteEntry ==
    (variant = "UNEC" /\ dcall.op = "delete_entry") =>
        /\ dcall.name \notin DOMAIN dh
        /\ KeysGrewBy(IF dcall.name \in DOMAIN dh0 THEN -1 ELSE 0)
        /\ OthersUntouched

\* A name bound to another position than the one given was unbound, and the
\* other name stays bound to a position above the one given.
C31_Witness ==
    /\ variant = "UNEC"
    /\ dcall.op = "delete_entry"
    /\ dcall.name \in DOMAIN dh0
    /\ dh0[dcall.name] # dcall.index
    /\ \E n \in DOMAIN dh : dh[n] > dcall.index

\* C32: unique index, add_entry(name, position) and replace_entry(name,
\* position) do the same: name is bound to position, an earlier binding is
\* overwritten, the number of keys grows by one only if name was unbound,
\* and all other bindings are unchanged.
C32_UniqueAddIsReplace ==
    (variant = "UNEC" /\ dcall.op \in {"add_entry", "replace_entry"}) =>
        /\ dh = add_entry_usize(dh0, dcall.name, dcall.index)
        /\ dh = replace_entry_usize(dh0, dcall.name, dcall.index)
        /\ dcall.name \in DOMAIN dh
        /\ dh[dcall.name] = dcall.index
        /\ KeysGrewBy(IF dcall.name \in DOMAIN dh0 THEN 0 ELSE 1)
        /\ OthersUntouched

\* add_entry gave a bound name another position while a second name was bound.
C32_Witness ==
    /\ variant = "UNEC"
    /\ dcall.op = "add_entry"
    /\ dcall.name \in DOMAIN dh0
    /\ dh0[dcall.name] # dcall.index
    /\ dh[dcall.name] = dcall.index
    /\ Cardinality(DOMAIN dh) = 2

\* C33: multi index, add_entry(name, position): position is appended at the
\* end of name's list (a new list when name was absent) whether or not the
\* list holds it already, the lists of all other names are unchanged, and the
\* keys are the distinct names added so far.
C33_MultiAddEntry ==
    variant = "DNEC" =>
        /\ DOMAIN dh = dcall.added
        /\ Cardinality(DOMAIN dh) = Cardinality(dcall.added)
        /\ dcall.op = "add_entry" =>
               /\ dcall.name \in DOMAIN dh
               /\ dh[dcall.name] =
                      Append(IF dcall.name \in DOMAIN dh0 THEN dh0[dcall.name] ELSE <<>>,
                             dcall.index)
               /\ OthersUntouched

\* The same position added three times under one name, next to another name.
C33_Witness ==
    /\ variant = "DNEC"
    /\ dcall.op = "add_entry"
    /\ dcall.added = {"A", "B"}
    /\ \E n \in DOMAIN dh, p \in 0..MaxPos : dh[n] = <<p, p, p>>

====
